---- MODULE Spec2Model ----
(***************************************************************************)
(* Hint generation with per-user rate limiting (SanjuNagar19/SCM).         *)
(*                                                                         *)
(* Two rate limiters exist in the sources, each with its own ledger map,   *)
(* lock and configuration: the one of backend.py (used by                  *)
(* backend.answer_query) and the one of modules/base.py (used by the       *)
(* answer_query of modules/ch3.py, seven_eleven.py and dragon_fire.py).    *)
(*                                                                         *)
(* Time is counted in half hours: timedelta(hours=1) is HourSpan = 2 and   *)
(* timedelta(days=1) is DaySpan = 48.                                      *)
(***************************************************************************)
EXTENDS Integers, Sequences, FiniteSets, TLC

VARIABLES
    now,                        \* datetime.utcnow(), in half hours
    ticks,                      \* how often the clock has advanced
    started,                    \* calls begun so far
    user_queries,               \* limiter -> the _user_queries map: email -> <<ts, tokens>> list
    rate_limit_lock,            \* limiter -> holder of _rate_limit_lock, or "free"
    recorded,                   \* history: limiter -> email -> every entry record_query appended
    pdf_chunks_by_section,      \* backend._pdf_chunks_by_section: section -> number of chunks
    pdf_embeddings_by_section,  \* backend._pdf_embeddings_by_section: section -> number of vectors
    pdf_chunks,                 \* module -> len(_pdf_chunks) of ch3.py / seven_eleven.py
    pdf_embeddings,             \* module -> len(_pdf_embeddings) of ch3.py / seven_eleven.py
    batch_calls,                \* history: document -> batch embedding calls made for it
    empty_finds,                \* history: <<impl, section>> -> times ensure_embeddings looked and found no chunks
    doc,                        \* environment: document -> whether its file is there and its chunk count
    retrieval,                  \* one retrieval: emb_list, chunk_list, query_emb and what is selected
    chunker,                    \* one split_into_chunks call: its text, its candidate chunks and what it returns
    session,                    \* st.session_state of one browser session: student_email, info_complete
    inv                         \* thread -> frame of the call it is executing

vars == <<now, ticks, started, user_queries, rate_limit_lock, recorded,
          pdf_chunks_by_section, pdf_embeddings_by_section, pdf_chunks,
          pdf_embeddings, batch_calls, empty_finds, doc, retrieval, chunker, session, inv>>

indexVars == <<pdf_chunks_by_section, pdf_embeddings_by_section, pdf_chunks,
               pdf_embeddings, batch_calls, empty_finds>>

ledgerVars == <<user_queries, rate_limit_lock, recorded>>

----------------------------------------------------------------------------
(* Bounds of the model *)

MaxTicks == 2               \* clock advances explored
MaxCalls == 4               \* direct check_rate_limit / record_query calls explored, one thread
MaxConcCalls == 3           \* the same, two threads
MaxConcTicks == 1           \* clock advances explored with two threads
MaxInvocations == 2         \* answer_query invocations explored
MaxSpecTicks == 1           \* clock advances explored around answer_query
MaxChunks == 1              \* most chunks a document yields
max_queries_per_hour == 2   \* the configured _config['max_queries_per_hour']
TokenHeadroom == 200        \* configured max_tokens_per_day = default estimate + this
MaxCoord == 1               \* largest coordinate of an embedding vector
MaxRaceInvocations == 3     \* answer_query invocations of the two racing threads
MaxReadmitRecords == 2      \* record_query calls before the user only asks
MaxRecordClock == 1         \* latest time of those record_query calls
MaxLoginQuestions == 2      \* chat questions sent from the sessions

(* Program constants *)

HourSpan == 2               \* timedelta(hours=1)
DaySpan == 48               \* timedelta(days=1)
BackendEstimate == 100      \* backend.check_rate_limit: estimated_tokens default
BaseEstimate == 10000       \* base.check_rate_limit: estimated_tokens default
FallbackTokens == 150       \* backend.answer_query: tokens recorded without usage
max_retries == 3            \* answer_query: max_retries

----------------------------------------------------------------------------
(* Inputs *)

Threads == {"t1", "t2"}
Limiters == {"backend", "base"}
Users == {"a@whu.edu", "b@whu.edu"}
Callers == {"a@whu.edu", ""}     \* user_email of an answer_query call; "" is anonymous
AdvanceSteps == {1, DaySpan - 1}
TokenReports == {100, 201}

DefaultEstimate(lim) == IF lim = "backend" THEN BackendEstimate ELSE BaseEstimate

max_tokens_per_day(lim) == DefaultEstimate(lim) + TokenHeadroom

EstimateInputs(lim) == {DefaultEstimate(lim), DefaultEstimate(lim) + 100}

----------------------------------------------------------------------------
(* The rate ledger: pure parts of check_rate_limit *)

RECURSIVE SumTokens(_)
SumTokens(h) == IF h = <<>> THEN 0 ELSE Head(h)[2] + SumTokens(Tail(h))

\* [(ts, tokens) for ts, tokens in h if ts > since]
After(h, since) == SelectSeq(h, LAMBDA e : e[1] > since)

PrunedHistoryKeepsAll(lim, email, current_time) ==
    IF email \in DOMAIN user_queries[lim] THEN user_queries[lim][email] ELSE <<>>

\* the list check_rate_limit would build if it counted the request it checks
PrunedHistoryStamped(lim, email, current_time) ==
    Append(IF email \in DOMAIN user_queries[lim]
           THEN After(user_queries[lim][email], current_time - DaySpan)
           ELSE <<>>, <<current_time, 0>>)

\* the pruned list check_rate_limit builds for the user
PrunedHistory(lim, email, current_time) ==
    IF email \in DOMAIN user_queries[lim]
    THEN After(user_queries[lim][email], current_time - DaySpan)
    ELSE <<>>

HourlyLimitHitOffByOne(recent_queries) == Len(recent_queries) > max_queries_per_hour

HourlyLimitHit(recent_queries) == Len(recent_queries) >= max_queries_per_hour

TokenLimitHitAtBudget(lim, daily_tokens, estimated_tokens) ==
    daily_tokens + estimated_tokens >= max_tokens_per_day(lim)

TokenLimitHit(lim, daily_tokens, estimated_tokens) ==
    daily_tokens + estimated_tokens > max_tokens_per_day(lim)

\* the (allowed, message) pair check_rate_limit returns for user_history
CheckResult(lim, user_history, current_time, estimated_tokens) ==
    LET recent_queries == After(user_history, current_time - HourSpan)
        daily_tokens == SumTokens(After(user_history, current_time - DaySpan))
    IN  IF HourlyLimitHit(recent_queries)
        THEN <<FALSE, "Rate limit exceeded">>
        ELSE IF TokenLimitHit(lim, daily_tokens, estimated_tokens)
        THEN <<FALSE, "Token limit exceeded">>
        ELSE <<TRUE, "OK">>

CanAcquireUnlocked(lim) == TRUE

\* with _rate_limit_lock: the lock can be taken
CanAcquire(lim) == rate_limit_lock[lim] = "free"

----------------------------------------------------------------------------
(* Frames *)

IdleFrame ==
    [op |-> "none", pc |-> "idle", user |-> "", impl |-> "backend",
     lim |-> "backend", section |-> "Ch.3", est |-> 0, tokens |-> 0,
     ctime |-> 0, hist |-> <<>>, allowed |-> FALSE, message |-> "",
     attempt |-> 0, best_chunk |-> "", bot_response |-> <<>>, trace |-> <<>>,
     result |-> <<>>]

Resting(p) == inv[p].pc \in {"idle", "done"}

Event(ev, out, n) == [ev |-> ev, out |-> out, n |-> n]

Documents == {"Ch.3", "7-Eleven Case 2015"}

Impls == {"backend", "ch3", "seven_eleven", "dragon_fire"}
Sections == {"Ch.3", "7-Eleven Case 2015", "Dragon Fire Case", "Other"}

\* the limiter module whose check_rate_limit / record_query an implementation calls
Limiter(impl) == IF impl = "backend" THEN "backend" ELSE "base"

\* the sections an implementation serves
SectionsOf(impl) ==
    CASE impl = "backend" -> Sections
      [] impl = "ch3" -> {"Ch.3"}
      [] impl = "seven_eleven" -> {"7-Eleven Case 2015"}
      [] impl = "dragon_fire" -> {"Dragon Fire Case"}

\* an implementation together with a section it serves: one section index
Services == {svc \in Impls \X Sections : svc[2] \in SectionsOf(svc[1])}

\* what os.path.exists and get_pdf_chunks find for a document
DocStates ==
    {[file |-> "missing", chunks |-> 0], [file |-> "unreadable", chunks |-> 0]}
        \cup {[file |-> "readable", chunks |-> n] : n \in 0..MaxChunks}

\* the session state app.py sets up for a new session
NoSession == [student_email |-> "", info_complete |-> FALSE]

\* no split_into_chunks call under way
NoChunking == [pc |-> "none", impl |-> "backend", text |-> <<>>, chunks |-> <<>>, result |-> <<>>]

\* no retrieval under way
NoRetrieval ==
    [pc |-> "none", emb_list |-> <<>>, chunk_list |-> <<>>, query_emb |-> <<0, 0>>,
     rounding |-> <<>>, sims |-> <<>>, best_idx |-> 0, best_chunk |-> ""]

InitProgram ==
    /\ now = 0
    /\ ticks = 0
    /\ started = 0
    /\ user_queries = [l \in Limiters |-> <<>>]
    /\ rate_limit_lock = [l \in Limiters |-> "free"]
    /\ recorded = [l \in Limiters |-> [u \in Users |-> <<>>]]
    /\ pdf_chunks_by_section = <<>>
    /\ pdf_embeddings_by_section = <<>>
    /\ pdf_chunks = [m \in {"ch3", "seven_eleven"} |-> 0]
    /\ pdf_embeddings = [m \in {"ch3", "seven_eleven"} |-> 0]
    /\ batch_calls = [s \in Documents |-> 0]
    /\ empty_finds = [svc \in Services |-> 0]
    /\ inv = [p \in Threads |-> IdleFrame]

Init ==
    /\ InitProgram
    /\ retrieval = NoRetrieval
    /\ chunker = NoChunking
    /\ session = NoSession
    /\ \E d \in DocStates : doc = [s \in Documents |-> d]

InitLimiter ==
    /\ InitProgram
    /\ retrieval = NoRetrieval
    /\ chunker = NoChunking
    /\ session = NoSession
    /\ doc = [s \in Documents |-> [file |-> "missing", chunks |-> 0]]

----------------------------------------------------------------------------
(* The clock *)

Tick(d) ==
    /\ now' = now + d
    /\ ticks' = ticks + 1
    /\ UNCHANGED <<started, ledgerVars, indexVars, doc, retrieval, chunker, session, inv>>

----------------------------------------------------------------------------
(* Direct calls of the limiter's functions *)

\* The two limiters share no state (each module has its own map, lock and
\* configuration), so every behaviour is an interleaving of one behaviour per
\* limiter; a behaviour of the model exercises one of them.
OnlyLimiter(lim) ==
    /\ \A l \in Limiters \ {lim} : user_queries[l] = <<>>
    /\ \A q \in Threads : inv[q].op # "none" => inv[q].lim = lim

\* the frame a returned call leaves behind
Returned(f, result) ==
    [IdleFrame EXCEPT !.op = f.op, !.pc = "done", !.user = f.user,
                      !.impl = f.impl, !.lim = f.lim, !.section = f.section,
                      !.trace = f.trace, !.result = result]

CallCheck(p, lim, email, estimated_tokens) ==
    /\ Resting(p)
    /\ OnlyLimiter(lim)
    /\ started' = started + 1
    /\ inv' = [inv EXCEPT ![p] = [IdleFrame EXCEPT !.op = "check_rate_limit",
                  !.pc = "check", !.user = email, !.lim = lim,
                  !.est = estimated_tokens]]
    /\ UNCHANGED <<now, ticks, ledgerVars, indexVars, doc, retrieval, chunker, session>>

CallRecord(p, lim, email, tokens_used) ==
    /\ Resting(p)
    /\ OnlyLimiter(lim)
    /\ started' = started + 1
    /\ inv' = [inv EXCEPT ![p] = [IdleFrame EXCEPT !.op = "record_query",
                  !.pc = "record", !.user = email, !.lim = lim,
                  !.tokens = tokens_used]]
    /\ UNCHANGED <<now, ticks, ledgerVars, indexVars, doc, retrieval, chunker, session>>

----------------------------------------------------------------------------
(* check_rate_limit, in the steps another thread could interleave with *)

\* entering "with _rate_limit_lock", reading the clock and building the pruned list
CheckEnter(p) ==
    LET f == inv[p] IN
    /\ f.pc = "check"
    /\ CanAcquire(f.lim)
    /\ rate_limit_lock' = [rate_limit_lock EXCEPT ![f.lim] = p]
    /\ inv' = [inv EXCEPT ![p].pc = "check_locked", ![p].ctime = now,
                          ![p].hist = PrunedHistory(f.lim, f.user, now)]
    /\ UNCHANGED <<now, ticks, started, user_queries, recorded, indexVars, doc, retrieval, chunker, session>>

\* storing the pruned list and computing the verdict from the stored list
CheckStore(p) ==
    LET f == inv[p]
        res == CheckResult(f.lim, f.hist, f.ctime, f.est)
    IN
    /\ f.pc = "check_locked"
    /\ user_queries' = [user_queries EXCEPT ![f.lim] = (f.user :> f.hist) @@ @]
    /\ inv' = [inv EXCEPT ![p].pc = "check_verdict", ![p].allowed = res[1],
                          ![p].message = res[2]]
    /\ UNCHANGED <<now, ticks, started, rate_limit_lock, recorded, indexVars, doc, retrieval, chunker, session>>

AfterCheckIgnoringVerdict(f) ==
    IF f.op = "check_rate_limit"
    THEN Returned(f, <<f.allowed, f.message>>)
    ELSE [f EXCEPT !.pc = IF f.impl = "dragon_fire" THEN "complete" ELSE "ensure",
                   !.hist = <<>>, !.ctime = 0,
                   !.trace = Append(@, Event("check", IF f.allowed THEN "allowed" ELSE "rejected", 0))]

\* where the caller goes once check_rate_limit has returned
AfterCheck(f) ==
    IF f.op = "check_rate_limit"
    THEN Returned(f, <<f.allowed, f.message>>)
    ELSE IF f.allowed
    THEN [f EXCEPT !.pc = IF f.impl = "dragon_fire" THEN "complete" ELSE "ensure",
                   !.hist = <<>>, !.ctime = 0,
                   !.trace = Append(@, Event("check", "allowed", 0))]
    ELSE Returned([f EXCEPT !.trace = Append(@, Event("check", "rejected", 0))],
                  <<f.message, ". Please try again later.">>)

\* leaving the lock and returning (allowed, message)
CheckLeave(p) ==
    LET f == inv[p] IN
    /\ f.pc = "check_verdict"
    /\ rate_limit_lock' = [rate_limit_lock EXCEPT ![f.lim] = "free"]
    /\ inv' = [inv EXCEPT ![p] = AfterCheck(f)]
    /\ UNCHANGED <<now, ticks, started, user_queries, recorded, indexVars, doc, retrieval, chunker, session>>

----------------------------------------------------------------------------
(* record_query *)

\* entering "with _rate_limit_lock" and creating the user's list if absent
RecordEnter(p) ==
    LET f == inv[p] IN
    /\ f.pc = "record"
    /\ CanAcquire(f.lim)
    /\ rate_limit_lock' = [rate_limit_lock EXCEPT ![f.lim] = p]
    /\ user_queries' = [user_queries EXCEPT ![f.lim] =
                            IF f.user \in DOMAIN @ THEN @ ELSE (f.user :> <<>>) @@ @]
    /\ inv' = [inv EXCEPT ![p].pc = "record_locked"]
    /\ UNCHANGED <<now, ticks, started, recorded, indexVars, doc, retrieval, chunker, session>>

\* the entry record_query appends
NewEntry(tokens_used) == <<now, tokens_used>>

AppendedPruned(queries, email, entry) ==
    (email :> Append(IF email \in DOMAIN queries
                     THEN SelectSeq(queries[email], LAMBDA e : e[1] > entry[1] - DaySpan)
                     ELSE <<>>, entry))
        @@ queries

\* every user's list with the new entry at its end
AppendedToAll(queries, email, entry) ==
    [u \in DOMAIN queries \cup {email} |->
        Append(IF u \in DOMAIN queries THEN queries[u] ELSE <<>>, entry)]

\* the user's list with the new entry at its end
Appended(queries, email, entry) ==
    (email :> Append(IF email \in DOMAIN queries THEN queries[email] ELSE <<>>, entry))
        @@ queries

\* appending (utcnow(), tokens_used), leaving the lock and returning
RecordAppend(p) ==
    LET f == inv[p] IN
    /\ f.pc = "record_locked"
    /\ user_queries' = [user_queries EXCEPT ![f.lim] = Appended(@, f.user, NewEntry(f.tokens))]
    /\ recorded' = [recorded EXCEPT ![f.lim][f.user] = Append(@, NewEntry(f.tokens))]
    /\ rate_limit_lock' = [rate_limit_lock EXCEPT ![f.lim] = "free"]
    /\ inv' = [inv EXCEPT ![p] =
                 IF f.op = "answer_query"
                 THEN Returned([f EXCEPT !.trace = Append(@, Event("record", "", f.tokens))],
                               f.bot_response)
                 ELSE Returned(f, <<>>)]
    /\ UNCHANGED <<now, ticks, started, indexVars, doc, retrieval, chunker, session>>

----------------------------------------------------------------------------
(* answer_query: backend.py, modules/ch3.py, seven_eleven.py, dragon_fire.py *)

\* SECTION_PDFS.get(section) is a file name
HasPdf(section) == section \in Documents

FirstStageUnchecked(impl, user_email) ==
    IF impl = "dragon_fire" THEN "complete" ELSE "ensure"

FirstStageChecked(impl, user_email) == "check"

\* the first thing answer_query does: "if user_email:" check the rate limit
FirstStage(impl, user_email) ==
    IF user_email # "" THEN "check"
    ELSE IF impl = "dragon_fire" THEN "complete" ELSE "ensure"

\* Sections share no index entry and the ledger does not depend on the section,
\* so a behaviour of the model follows one implementation and one section.
SameService(p, impl, section) ==
    inv[p].op = "none" \/ (inv[p].impl = impl /\ inv[p].section = section)

Begin(p, impl, section, user_email) ==
    /\ Resting(p)
    /\ SameService(p, impl, section)
    /\ started' = started + 1
    /\ inv' = [inv EXCEPT ![p] = [IdleFrame EXCEPT !.op = "answer_query",
                  !.pc = FirstStage(impl, user_email), !.user = user_email,
                  !.impl = impl, !.lim = Limiter(impl), !.section = section,
                  !.est = DefaultEstimate(Limiter(impl))]]
    /\ UNCHANGED <<now, ticks, ledgerVars, indexVars, doc, retrieval, chunker, session>>

OuterHandlerMissing(f) == [f EXCEPT !.pc = "raised"]

\* the outermost "except Exception" of answer_query
OuterHandler(f) ==
    Returned(f, <<"A technical error occurred. Please contact support if this persists.">>)

\* ensure_embeddings as it would be if it returned without storing anything
EnsureLocalUnstored(p) ==
    /\ inv[p].pc = "ensure"
    /\ inv' = [inv EXCEPT ![p] = [inv[p] EXCEPT !.pc = "embed",
                  !.trace = Append(@, Event("ensure", "no_path", 0))]]
    /\ UNCHANGED <<now, ticks, started, ledgerVars, indexVars, doc, retrieval, chunker, session>>

\* ensure_embeddings up to its return, its exception or its batch embedding call
EnsureLocal(p) ==
    LET f == inv[p]
        s == f.section
        did(kind) == [f EXCEPT !.trace = Append(@, Event("ensure", kind, 0))]
        found == [empty_finds EXCEPT ![<<f.impl, s>>] = @ + 1]
    IN
    /\ f.pc = "ensure"
    /\ IF f.impl = "backend"
       THEN /\ UNCHANGED <<pdf_chunks, pdf_embeddings>>
            /\ IF s \in DOMAIN pdf_chunks_by_section /\ s \in DOMAIN pdf_embeddings_by_section
               THEN /\ inv' = [inv EXCEPT ![p] = [did("cached") EXCEPT !.pc = "embed"]]
                    /\ UNCHANGED <<pdf_chunks_by_section, pdf_embeddings_by_section, empty_finds>>
               ELSE IF ~HasPdf(s) \/ doc[s].file = "missing"
               THEN /\ pdf_chunks_by_section' = (s :> 0) @@ pdf_chunks_by_section
                    /\ pdf_embeddings_by_section' = (s :> 0) @@ pdf_embeddings_by_section
                    /\ empty_finds' = found
                    /\ inv' = [inv EXCEPT ![p] =
                                 [did(IF HasPdf(s) THEN "missing" ELSE "no_path") EXCEPT !.pc = "embed"]]
               ELSE IF doc[s].file = "unreadable"
               THEN /\ inv' = [inv EXCEPT ![p] = OuterHandler(did("raised"))]
                    /\ UNCHANGED <<pdf_chunks_by_section, pdf_embeddings_by_section, empty_finds>>
               ELSE /\ pdf_chunks_by_section' = (s :> doc[s].chunks) @@ pdf_chunks_by_section
                    /\ IF doc[s].chunks > 0
                       THEN /\ inv' = [inv EXCEPT ![p] = [did("extracted") EXCEPT !.pc = "batch_embed"]]
                            /\ UNCHANGED <<pdf_embeddings_by_section, empty_finds>>
                       ELSE /\ pdf_embeddings_by_section' = (s :> 0) @@ pdf_embeddings_by_section
                            /\ empty_finds' = found
                            /\ inv' = [inv EXCEPT ![p] = [did("extracted") EXCEPT !.pc = "embed"]]
       ELSE /\ UNCHANGED <<pdf_chunks_by_section, pdf_embeddings_by_section>>
            /\ IF pdf_chunks[f.impl] > 0 /\ pdf_embeddings[f.impl] > 0
               THEN /\ inv' = [inv EXCEPT ![p] = [did("cached") EXCEPT !.pc = "embed"]]
                    /\ UNCHANGED <<pdf_chunks, pdf_embeddings, empty_finds>>
               ELSE IF doc[s].file = "missing"
               THEN /\ pdf_chunks' = [pdf_chunks EXCEPT ![f.impl] = 0]
                    /\ pdf_embeddings' = [pdf_embeddings EXCEPT ![f.impl] = 0]
                    /\ empty_finds' = found
                    /\ inv' = [inv EXCEPT ![p] = [did("missing") EXCEPT !.pc = "embed"]]
               ELSE IF doc[s].file = "unreadable"
               THEN /\ inv' = [inv EXCEPT ![p] = OuterHandler(did("raised"))]
                    /\ UNCHANGED <<pdf_chunks, pdf_embeddings, empty_finds>>
               ELSE /\ pdf_chunks' = [pdf_chunks EXCEPT ![f.impl] = doc[s].chunks]
                    /\ IF doc[s].chunks > 0
                       THEN /\ inv' = [inv EXCEPT ![p] = [did("extracted") EXCEPT !.pc = "batch_embed"]]
                            /\ UNCHANGED <<pdf_embeddings, empty_finds>>
                       ELSE /\ pdf_embeddings' = [pdf_embeddings EXCEPT ![f.impl] = 0]
                            /\ empty_finds' = found
                            /\ inv' = [inv EXCEPT ![p] = [did("extracted") EXCEPT !.pc = "embed"]]
    /\ UNCHANGED <<now, ticks, started, ledgerVars, batch_calls, doc, retrieval, chunker, session>>

EmbedOutcomes == {"ok", "api_error", "other_error"}

\* openai.embeddings.create(input=chunks) of ensure_embeddings returns or raises
BatchEmbed(p, outcome) ==
    LET f == inv[p]
        s == f.section
        g == [f EXCEPT !.trace = Append(@, Event("batch_embed", outcome, 0))]
    IN
    /\ f.pc = "batch_embed"
    /\ batch_calls' = [batch_calls EXCEPT ![s] = @ + 1]
    /\ UNCHANGED empty_finds
    /\ IF f.impl = "backend"
       THEN /\ UNCHANGED <<pdf_chunks, pdf_embeddings, pdf_chunks_by_section>>
            /\ IF outcome = "ok"
               THEN /\ pdf_embeddings_by_section' =
                          (s :> pdf_chunks_by_section[s]) @@ pdf_embeddings_by_section
                    /\ inv' = [inv EXCEPT ![p] = [g EXCEPT !.pc = "embed"]]
               ELSE /\ UNCHANGED pdf_embeddings_by_section
                    /\ inv' = [inv EXCEPT ![p] = OuterHandler(g)]
       ELSE /\ UNCHANGED <<pdf_chunks, pdf_chunks_by_section, pdf_embeddings_by_section>>
            /\ pdf_embeddings' = [pdf_embeddings EXCEPT ![f.impl] =
                                     IF outcome = "ok" THEN pdf_chunks[f.impl] ELSE 0]
            /\ inv' = [inv EXCEPT ![p] = [g EXCEPT !.pc = "embed"]]
    /\ UNCHANGED <<now, ticks, started, ledgerVars, doc, retrieval, chunker, session>>

\* emb_list / chunk_list as answer_query reads them
StoredEmbeddings(f) ==
    IF f.impl = "backend"
    THEN IF f.section \in DOMAIN pdf_embeddings_by_section
         THEN pdf_embeddings_by_section[f.section] ELSE 0
    ELSE pdf_embeddings[f.impl]

StoredChunks(f) ==
    IF f.impl = "backend"
    THEN IF f.section \in DOMAIN pdf_chunks_by_section
         THEN pdf_chunks_by_section[f.section] ELSE 0
    ELSE pdf_chunks[f.impl]

\* openai.embeddings.create(input=[full_query]) returns or raises; on return the
\* best chunk is retrieved and the prompt composed
QueryEmbed(p, outcome) ==
    LET f == inv[p]
        g == [f EXCEPT !.trace = Append(@, Event("query_embed", outcome, 0))]
    IN
    /\ f.pc = "embed"
    /\ inv' = [inv EXCEPT ![p] =
         CASE outcome = "ok" ->
                [g EXCEPT !.pc = "complete",
                          !.best_chunk = IF StoredEmbeddings(f) = 0 \/ StoredChunks(f) = 0
                                         THEN "" ELSE "chunk"]
           [] outcome = "api_error" ->
                Returned(g, <<"I'm having trouble processing your question right now. Please try again in a few moments.">>)
           [] OTHER ->
                Returned(g, <<"There was a technical issue. Please try again later.">>)]
    /\ UNCHANGED <<now, ticks, started, ledgerVars, indexVars, doc, retrieval, chunker, session>>

\* "ok": a response with content and usage.total_tokens; "no_usage": a response
\* without a usage attribute; "usage_none": a response whose usage is None;
\* "rate_limit": openai.RateLimitError; "api_error": another openai.OpenAIError;
\* "other_error": any other exception of the call or of reading the content
CompletionOutcomes ==
    {"ok", "no_usage", "usage_none", "rate_limit", "api_error", "other_error"}

BusyMessage(impl) ==
    IF impl = "backend"
    THEN <<"The AI service is currently busy. Please try again in a few minutes.">>
    ELSE <<"OpenAI rate limit reached. Please try again in a few minutes.">>

ApiErrorMessage(impl) ==
    IF impl = "backend"
    THEN <<"I'm having trouble connecting to the AI service. Please try again later.">>
    ELSE <<"Unable to process your question right now. Please try again later.">>

UnexpectedMessage == <<"Something went wrong while processing your question. Please try again.">>

\* 2 ** n
RECURSIVE Pow2(_)
Pow2(n) == IF n = 0 THEN 1 ELSE 2 * Pow2(n - 1)

RateLimitBackoffFlat(attempt) == 1

\* time.sleep(2 ** attempt) of the RateLimitError handler
RateLimitBackoff(attempt) == Pow2(attempt)

MayRetryOnce(attempt) == attempt < 1

\* "if attempt < max_retries - 1": another attempt follows
MayRetry(attempt) == attempt < max_retries - 1

ExhaustedMessage == <<"Unable to process your question at this time. Please try again later.">>

\* "continue": the next iteration of "for attempt in range(max_retries)", or the
\* return after the loop once the range is exhausted
NextAttempt(f) ==
    IF f.attempt + 1 < max_retries
    THEN [f EXCEPT !.attempt = @ + 1]
    ELSE Returned(f, ExhaustedMessage)

OnRateLimitRecorded(f) ==
    IF MayRetry(f.attempt)
    THEN NextAttempt([f EXCEPT !.trace = Append(@, Event("sleep", "", RateLimitBackoff(f.attempt)))])
    ELSE IF f.user # ""
    THEN [f EXCEPT !.pc = "record", !.bot_response = BusyMessage(f.impl), !.tokens = FallbackTokens]
    ELSE Returned(f, BusyMessage(f.impl))

\* except openai.RateLimitError
OnRateLimit(f) ==
    IF MayRetry(f.attempt)
    THEN NextAttempt([f EXCEPT !.trace = Append(@, Event("sleep", "", RateLimitBackoff(f.attempt)))])
    ELSE Returned(f, BusyMessage(f.impl))

OnApiErrorNoRetry(f) == Returned(f, ApiErrorMessage(f.impl))

\* except openai.OpenAIError
OnApiError(f) ==
    IF MayRetry(f.attempt)
    THEN IF f.impl = "backend"
         THEN NextAttempt([f EXCEPT !.trace = Append(@, Event("sleep", "", 1))])
         ELSE NextAttempt(f)
    ELSE Returned(f, ApiErrorMessage(f.impl))

\* except Exception, inside the retry loop ("break" leads to the return after it)
OnException(f) ==
    IF f.impl = "backend"
    THEN Returned(f, UnexpectedMessage)
    ELSE IF MayRetry(f.attempt)
    THEN NextAttempt(f)
    ELSE Returned(f, ExhaustedMessage)

OnResponseUnrecorded(f, outcome, total_tokens) == Returned(f, <<"hint", f.attempt + 1>>)

\* the try block after a response arrived: strip the content, take the usage
OnResponse(f, outcome, total_tokens) ==
    LET text == <<"hint", f.attempt + 1>> IN
    IF f.user = "" THEN Returned(f, text)
    ELSE IF outcome = "ok"
    THEN [f EXCEPT !.pc = "record", !.bot_response = text, !.tokens = total_tokens]
    ELSE IF outcome = "no_usage" /\ f.impl = "backend"
    THEN [f EXCEPT !.pc = "record", !.bot_response = text, !.tokens = FallbackTokens]
    ELSE OnException(f)

\* one openai.chat.completions.create call returns or raises
Complete(p, outcome, total_tokens) ==
    LET f == inv[p]
        g == [f EXCEPT !.trace = Append(@, Event("completion", outcome, f.attempt + 1))]
    IN
    /\ f.pc = "complete"
    /\ inv' = [inv EXCEPT ![p] =
         CASE outcome = "rate_limit" -> OnRateLimit(g)
           [] outcome = "api_error" -> OnApiError(g)
           [] outcome = "other_error" -> OnException(g)
           [] OTHER -> OnResponse(g, outcome, total_tokens)]
    /\ UNCHANGED <<now, ticks, started, ledgerVars, indexVars, doc, retrieval, chunker, session>>

LimiterStep(p) ==
    \/ CheckEnter(p)
    \/ CheckStore(p)
    \/ CheckLeave(p)
    \/ RecordEnter(p)
    \/ RecordAppend(p)

----------------------------------------------------------------------------
(* The limiter under direct calls of one thread *)

NextLimiter ==
    \/ \E d \in AdvanceSteps : ticks < MaxTicks /\ Tick(d)
    \/ \E lim \in Limiters, u \in Users :
          /\ started < MaxCalls
          /\ \/ \E e \in EstimateInputs(lim) : CallCheck("t1", lim, u, e)
             \/ \E t \in TokenReports : CallRecord("t1", lim, u, t)
    \/ LimiterStep("t1")

SpecLimiter == InitLimiter /\ [][NextLimiter]_vars

(* The limiter under direct calls of two threads *)

NextConc ==
    \/ \E d \in AdvanceSteps : ticks < MaxConcTicks /\ Tick(d)
    \/ \E p \in Threads, lim \in Limiters, u \in Users :
          /\ started < MaxConcCalls
          /\ \/ \E e \in EstimateInputs(lim) : CallCheck(p, lim, u, e)
             \/ \E t \in TokenReports : CallRecord(p, lim, u, t)
    \/ \E p \in Threads : LimiterStep(p)

SpecConc == InitLimiter /\ [][NextConc]_vars

(* The limiter as a user who keeps asking sees it *)

\* The verdict depends on the time through the entries that are younger than
\* an hour and younger than a day only: the clock is watched until an hour
\* after the last recorded call and again from a day after the first.
WorthWatching(t) == t <= MaxRecordClock + HourSpan \/ t >= DaySpan - 1

\* the time from which on the ledger holds nothing that is younger than a day
ReadmitHorizon == MaxRecordClock + HourSpan + DaySpan - 1

\* another check_rate_limit call of the user: the call of CallCheck, not counted
Retry(p, lim, email, estimated_tokens) ==
    /\ Resting(p)
    /\ OnlyLimiter(lim)
    /\ inv' = [inv EXCEPT ![p] = [IdleFrame EXCEPT !.op = "check_rate_limit",
                  !.pc = "check", !.user = email, !.lim = lim,
                  !.est = estimated_tokens]]
    /\ UNCHANGED <<now, ticks, started, ledgerVars, indexVars, doc, retrieval, chunker, session>>

\* a record_query call, which only takes the lock and appends, is over before
\* the clock is looked at again
ClockRuns ==
    /\ \A p \in Threads : inv[p].op = "record_query" => Resting(p)
    /\ \E d \in AdvanceSteps :
          now + d <= ReadmitHorizon /\ WorthWatching(now + d) /\ Tick(d)

KeepsAsking ==
    \E lim \in Limiters : Retry("t1", lim, "a@whu.edu", DefaultEstimate(lim))

\* A few calls are recorded early on; after that the user only asks.
NextReadmit ==
    \/ ClockRuns
    \/ \E lim \in Limiters, t \in TokenReports :
          /\ started < MaxReadmitRecords
          /\ now <= MaxRecordClock
          /\ CallRecord("t1", lim, "a@whu.edu", t)
    \/ KeepsAsking
    \/ LimiterStep("t1")

\* Time passes, a call that was made returns, and the user asks again.
SpecReadmit ==
    /\ InitLimiter
    /\ [][NextReadmit]_vars
    /\ WF_vars(ClockRuns)
    /\ WF_vars(KeepsAsking)
    /\ WF_vars(LimiterStep("t1"))

----------------------------------------------------------------------------
(* answer_query invocations, one at a time *)

\* The clock is read in check_rate_limit and record_query only: it is enough
\* that it advances between invocations and while the first completion call
\* is awaited.
ClockMayAdvance(f) ==
    f.pc \in {"idle", "done"} \/ (f.pc = "complete" /\ f.attempt = 0)

Next ==
    \/ \E d \in AdvanceSteps :
          ticks < MaxSpecTicks /\ ClockMayAdvance(inv["t1"]) /\ Tick(d)
    \/ \E impl \in Impls, u \in Callers : \E s \in SectionsOf(impl) :
          started < MaxInvocations /\ Begin("t1", impl, s, u)
    \/ LimiterStep("t1")
    \/ EnsureLocal("t1")
    \/ \E o \in EmbedOutcomes : BatchEmbed("t1", o) \/ QueryEmbed("t1", o)
    \/ \E o \in CompletionOutcomes :
          \E t \in (IF o = "ok" THEN TokenReports ELSE {0}) : Complete("t1", o, t)

Spec == Init /\ [][Next]_vars

(* answer_query invocations of one user on two threads *)

\* Two sessions of one student ask at the same time: each Streamlit session
\* runs its script on a thread of its own. Every external call succeeds, so
\* that what the two invocations see differs by their interleaving only.
NextRace ==
    \/ \E p \in Threads, impl \in Impls : \E s \in SectionsOf(impl) :
          /\ started < MaxRaceInvocations
          /\ \A q \in Threads : SameService(q, impl, s)
          /\ Begin(p, impl, s, "a@whu.edu")
    \/ \E p \in Threads : LimiterStep(p)
    \/ \E p \in Threads : EnsureLocal(p)
    \/ \E p \in Threads : BatchEmbed(p, "ok") \/ QueryEmbed(p, "ok")
    \/ \E p \in Threads, t \in TokenReports : Complete(p, "ok", t)

SpecRace == Init /\ [][NextRace]_vars

----------------------------------------------------------------------------
(* The student form and the chat of app.py *)

\* What a student may type into the email field, each string with the
\* characters it is written with: letters, spaces and the part from the @ on.
Spelling ==
    ("" :> <<>>)
        @@ ("a@whu.edu" :> <<"a", "@whu.edu">>)
        @@ ("A@whu.edu" :> <<"A", "@whu.edu">>)
        @@ (" a@whu.edu" :> <<" ", "a", "@whu.edu">>)
        @@ ("a@WHU.EDU " :> <<"a", "@WHU.EDU", " ">>)
        @@ ("b@whu.edu" :> <<"b", "@whu.edu">>)
        @@ ("a b@whu.edu" :> <<"a", " ", "b", "@whu.edu">>)
        @@ ("a@gmail.com" :> <<"a", "@gmail.com">>)

FormEmails == DOMAIN Spelling

\* the string that is written s
Written(s) == CHOOSE e \in FormEmails : Spelling[e] = s

\* str.lower() on one character
Lower(c) ==
    CASE c = "A" -> "a"
      [] c = "@WHU.EDU" -> "@whu.edu"
      [] OTHER -> c

\* str.strip()
RECURSIVE Strip(_)
Strip(s) ==
    IF s = <<>> THEN s
    ELSE IF Head(s) = " " THEN Strip(Tail(s))
    ELSE IF s[Len(s)] = " " THEN Strip(SubSeq(s, 1, Len(s) - 1))
    ELSE s

\* re.match(r'^[a-zA-Z0-9._%+-]+@whu\.edu$', email)
MatchesWhu(s) ==
    /\ Len(s) >= 2
    /\ s[Len(s)] = "@whu.edu"
    /\ \A i \in 1..(Len(s) - 1) : s[i] \in {"a", "A", "b"}

\* validate_email: (valid, cleaned address or message); no input is longer
\* than 100 characters
validate_email(email) ==
    IF email = "" THEN <<FALSE, "Email is required">>
    ELSE LET stripped == Strip(Spelling[email])
             cleaned == [i \in DOMAIN stripped |-> Lower(stripped[i])]
         IN IF MatchesWhu(cleaned)
            THEN <<TRUE, Written(cleaned)>>
            ELSE <<FALSE, "Please use a valid WHU email address ending with @whu.edu">>

\* what the session would keep if it took validate_email's cleaned address
SessionKeepsCleaned(email) == validate_email(email)[2]

\* st.session_state['student_email'] = email
SessionKeeps(email) == email

\* student_info_page, "if submit": the session takes the email as typed, the
\* inputs are validated and save_student stores the cleaned data or raises
SubmitInfo(email, name_valid, saved) ==
    /\ \A p \in Threads : Resting(p)
    /\ ~session.info_complete
    /\ session' = [student_email |-> SessionKeeps(email),
                   info_complete |-> name_valid /\ validate_email(email)[1] /\ saved]
    /\ UNCHANGED <<now, ticks, started, ledgerVars, indexVars, doc, retrieval, chunker, inv>>

\* "End Session & Logout"
Logout ==
    /\ \A p \in Threads : Resting(p)
    /\ session.info_complete
    /\ session.student_email # ""
    /\ session' = NoSession
    /\ UNCHANGED <<now, ticks, started, ledgerVars, indexVars, doc, retrieval, chunker, inv>>

\* the chat's "Send": answer_query(..., user_email=session student_email)
Send(section) ==
    /\ session.info_complete
    /\ SameService("t1", "backend", section)
    /\ Begin("t1", "backend", section, session.student_email)

InitLogin ==
    /\ now = 0
    /\ ticks = 0
    /\ started = 0
    /\ user_queries = [l \in Limiters |-> <<>>]
    /\ rate_limit_lock = [l \in Limiters |-> "free"]
    /\ recorded = [l \in Limiters |-> [u \in FormEmails |-> <<>>]]
    /\ pdf_chunks_by_section = <<>>
    /\ pdf_embeddings_by_section = <<>>
    /\ pdf_chunks = [m \in {"ch3", "seven_eleven"} |-> 0]
    /\ pdf_embeddings = [m \in {"ch3", "seven_eleven"} |-> 0]
    /\ batch_calls = [s \in Documents |-> 0]
    /\ empty_finds = [svc \in Services |-> 0]
    /\ inv = [p \in Threads |-> IdleFrame]
    /\ retrieval = NoRetrieval
    /\ chunker = NoChunking
    /\ session = NoSession
    /\ doc = [s \in Documents |-> [file |-> "missing", chunks |-> 0]]

\* One browser session after another on one server process; the external
\* calls succeed.
NextLogin ==
    \/ \E email \in FormEmails, name_valid \in BOOLEAN, saved \in BOOLEAN :
          SubmitInfo(email, name_valid, saved)
    \/ Logout
    \/ \E s \in SectionsOf("backend") : started < MaxLoginQuestions /\ Send(s)
    \/ LimiterStep("t1")
    \/ EnsureLocal("t1")
    \/ QueryEmbed("t1", "ok")
    \/ \E t \in TokenReports : Complete("t1", "ok", t)

SpecLogin == InitLogin /\ [][NextLogin]_vars

----------------------------------------------------------------------------
(* Retrieval: cosine_similarity and the selection of best_chunk *)

\* embedding vectors: two coordinates, not both zero
Vectors == {v \in (-1..MaxCoord) \X (-1..MaxCoord) : v # <<0, 0>>}

IndexLengths == 0..3

\* chunk_list of an index of n chunks, each chunk named by its position
ChunkTexts(n) == [i \in 1..n |-> <<"chunk", i>>]

\* np.dot(a, b)
Dot(a, b) == a[1] * b[1] + a[2] * b[2]

cosine_similarity_unnormalised(a, b) == [d |-> Dot(a, b), n |-> 1]

\* np.dot(a, b) / (np.linalg.norm(a) * np.linalg.norm(b)): the real number
\* d / sqrt(n), kept as the pair (d, n)
cosine_similarity(a, b) == [d |-> Dot(a, b), n |-> Dot(a, a) * Dot(b, b)]

\* x < y for two such real numbers
RealLess(x, y) ==
    IF x.d >= 0 /\ y.d >= 0 THEN x.d * x.d * y.n < y.d * y.d * x.n
    ELSE IF x.d < 0 /\ y.d < 0 THEN x.d * x.d * y.n > y.d * y.d * x.n
    ELSE x.d < 0

RealEqual(x, y) == ~RealLess(x, y) /\ ~RealLess(y, x)

\* x < y and x == y for two computed floats: the real value, then the rounding
\* of the last place
FloatLess(x, y) ==
    RealLess(x.sim, y.sim) \/ (RealEqual(x.sim, y.sim) /\ x.ulp < y.ulp)

FloatEqual(x, y) == RealEqual(x.sim, y.sim) /\ x.ulp = y.ulp

\* the float arithmetic is a function of its operands: equal dot products
\* over equal norms round alike
RoundsAlike(emb_list, query_emb, rounding) ==
    \A i, j \in DOMAIN emb_list :
        (Dot(query_emb, emb_list[i]) = Dot(query_emb, emb_list[j])
            /\ Dot(emb_list[i], emb_list[i]) = Dot(emb_list[j], emb_list[j]))
        => rounding[i] = rounding[j]

\* max(sims): the first element no later element is greater than
RECURSIVE PyMaxFrom(_, _, _)
PyMaxFrom(sims, i, best) ==
    IF i > Len(sims) THEN best
    ELSE PyMaxFrom(sims, i + 1, IF FloatLess(best, sims[i]) THEN sims[i] ELSE best)

PyMax(sims) == PyMaxFrom(sims, 2, sims[1])

PyIndexLast(sims, v) ==
    CHOOSE i \in DOMAIN sims :
        FloatEqual(sims[i], v) /\ \A j \in DOMAIN sims : j > i => ~FloatEqual(sims[j], v)

\* sims.index(v): the first position holding v
PyIndex(sims, v) ==
    CHOOSE i \in DOMAIN sims :
        FloatEqual(sims[i], v) /\ \A j \in DOMAIN sims : j < i => ~FloatEqual(sims[j], v)

\* [cosine_similarity(query_emb, emb) for emb in emb_list]
Sims(r) ==
    [i \in DOMAIN r.emb_list |->
        [sim |-> cosine_similarity(r.query_emb, r.emb_list[i]), ulp |-> r.rounding[i]]]

InitRetrieval ==
    /\ InitProgram
    /\ chunker = NoChunking
    /\ session = NoSession
    /\ doc = [s \in Documents |-> [file |-> "missing", chunks |-> 0]]
    /\ \E n \in IndexLengths :
          \E e \in [1..n -> Vectors], q \in Vectors, r \in [1..n -> {0, 1}] :
              /\ RoundsAlike(e, q, r)
              /\ retrieval = [NoRetrieval EXCEPT !.pc = "ready", !.emb_list = e,
                                  !.chunk_list = ChunkTexts(n), !.query_emb = q,
                                  !.rounding = r]

\* answer_query: "Find most similar chunk"
Retrieve ==
    /\ retrieval.pc = "ready"
    /\ retrieval' =
         IF retrieval.emb_list = <<>> \/ retrieval.chunk_list = <<>>
         THEN [retrieval EXCEPT !.pc = "retrieved", !.best_chunk = ""]
         ELSE LET sims == Sims(retrieval)
                  best_idx == PyIndex(sims, PyMax(sims))
              IN [retrieval EXCEPT !.pc = "retrieved", !.sims = sims,
                                   !.best_idx = best_idx,
                                   !.best_chunk = retrieval.chunk_list[best_idx]]
    /\ UNCHANGED <<now, ticks, started, ledgerVars, indexVars, doc, chunker, session, inv>>

NextRetrieval == Retrieve

SpecRetrieval == InitRetrieval /\ [][NextRetrieval]_vars

----------------------------------------------------------------------------
(* split_into_chunks *)

\* A text is the list of its stripped, non-empty paragraphs, as
\* re.split(r'\n\s*\n', text) and p.strip() give them. A paragraph is the
\* lengths of the pieces re.split(r'(?<=[.!?]) +', para) cuts it into and the
\* widths of the runs of spaces between them. A chunk is the pieces it is made
\* of, each named <<paragraph, piece>>, and its length in characters.

min_length == 300
MinChunkLength == 50

MaxSentences == 2

SentenceLengths == {25, 50, 149, 150}
GapWidths == {1, 2}
Chunkers == {"backend", "base"}

Paragraphs ==
    UNION {{[sents |-> s, gaps |-> g] :
              s \in [1..n -> SentenceLengths], g \in [1..(n - 1) -> GapWidths]} :
           n \in 1..MaxSentences}

Texts == UNION {[1..n -> Paragraphs] : n \in 1..2}

RECURSIVE Total(_)
Total(s) == IF DOMAIN s = {} THEN 0 ELSE Head(s) + Total(Tail(s))

\* len(para)
ParaLen(para) == Total(para.sents) + Total(para.gaps)

\* temp = ''
EmptyBuffer == [parts |-> <<>>, len |-> 0, pad |-> 0]

\* temp.strip(): the buffer without the space it begins or ends with
Stripped(temp) == [parts |-> temp.parts, len |-> temp.len - temp.pad]

\* the body of "for sent in sentences", st being temp and chunks; backend.py
\* joins with a space in front and flushes even an empty buffer, base.py joins
\* with a space behind and flushes a non-empty buffer only
SentenceStep(impl, st, id, n, min) ==
    LET temp == st.temp IN
    IF temp.len + n < min
    THEN [st EXCEPT !.temp =
            [parts |-> Append(temp.parts, id), len |-> temp.len + n + 1,
             pad |-> IF impl = "backend" /\ temp.len > 0 THEN temp.pad ELSE 1]]
    ELSE [temp |-> IF impl = "backend"
                   THEN [parts |-> <<id>>, len |-> n, pad |-> 0]
                   ELSE [parts |-> <<id>>, len |-> n + 1, pad |-> 1],
          chunks |-> IF impl = "backend" \/ temp.len > 0
                     THEN Append(st.chunks, Stripped(temp)) ELSE st.chunks]

RECURSIVE SentenceLoop(_, _, _, _, _, _)
SentenceLoop(impl, i, para, j, st, min) ==
    IF j > Len(para.sents) THEN st
    ELSE SentenceLoop(impl, i, para, j + 1,
                      SentenceStep(impl, st, <<i, j>>, para.sents[j], min), min)

SplitsEveryParagraph(para, min) == TRUE

\* "if len(para) < min_length"
SplitsIntoSentences(para, min) == ParaLen(para) < min

\* the body of "for para in paragraphs"
ParagraphChunks(impl, i, para, chunks, min) ==
    IF SplitsIntoSentences(para, min)
    THEN LET st == SentenceLoop(impl, i, para, 1,
                                [temp |-> EmptyBuffer, chunks |-> chunks], min)
         IN IF st.temp.len > 0 THEN Append(st.chunks, Stripped(st.temp)) ELSE st.chunks
    ELSE Append(chunks, [parts |-> [j \in 1..Len(para.sents) |-> <<i, j>>],
                         len |-> ParaLen(para)])

\* chunks as the loop over the paragraphs leaves it
RECURSIVE Candidates(_, _, _, _, _)
Candidates(impl, text, i, chunks, min) ==
    IF i > Len(text) THEN chunks
    ELSE Candidates(impl, text, i + 1, ParagraphChunks(impl, i, text[i], chunks, min), min)

\* the test of the final filter
Kept(c) == c.len > MinChunkLength

split_into_chunks(impl, text, min) == SelectSeq(Candidates(impl, text, 1, <<>>, min), Kept)

InitChunker ==
    /\ InitProgram
    /\ session = NoSession
    /\ retrieval = NoRetrieval
    /\ doc = [s \in Documents |-> [file |-> "missing", chunks |-> 0]]
    /\ \E impl \in Chunkers, text \in Texts :
          chunker = [NoChunking EXCEPT !.pc = "called", !.impl = impl, !.text = text]

\* split_into_chunks(text) with the default min_length
Split ==
    /\ chunker.pc = "called"
    /\ chunker' = [chunker EXCEPT
          !.pc = "returned",
          !.chunks = Candidates(chunker.impl, chunker.text, 1, <<>>, min_length),
          !.result = split_into_chunks(chunker.impl, chunker.text, min_length)]
    /\ UNCHANGED <<now, ticks, started, ledgerVars, indexVars, doc, retrieval, session, inv>>

NextChunker == Split

SpecChunker == InitChunker /\ [][NextChunker]_vars

----------------------------------------------------------------------------
(* Properties *)

\* the user's list in a limiter's map, empty when the user has none
Ledger(lim, email) ==
    IF email \in DOMAIN user_queries[lim] THEN user_queries[lim][email] ELSE <<>>

\* positions of the entries of h that are younger than span at time t
Within(h, t, span) == {i \in DOMAIN h : t - h[i][1] < span}

RECURSIVE TokensAt(_, _)
TokensAt(h, idx) ==
    IF idx = {} THEN 0
    ELSE LET i == CHOOSE j \in idx : TRUE IN h[i][2] + TokensAt(h, idx \ {i})

\* a check_rate_limit call that has its verdict and still holds the lock
AtVerdict(f) == f.pc = "check_verdict"

HourCount(f) == Cardinality(Within(Ledger(f.lim, f.user), f.ctime, HourSpan))

DayTokens(f) ==
    LET h == Ledger(f.lim, f.user) IN TokensAt(h, Within(h, f.ctime, DaySpan))

\* C1: when the token budget does not bind, check_rate_limit allows exactly when
\* fewer than max_queries_per_hour entries of the user lie within the trailing
\* hour, and a refusal carries the 'Rate limit exceeded' reason.
C1_HourlyBoundary ==
    \A p \in Threads :
        LET f == inv[p] IN
        (AtVerdict(f) /\ DayTokens(f) + f.est <= max_tokens_per_day(f.lim)) =>
            /\ f.allowed <=> HourCount(f) < max_queries_per_hour
            /\ ~f.allowed => f.message = "Rate limit exceeded"

\* C1 witness: the query after max_queries_per_hour recorded ones within the hour
\* is refused.
C1_Witness ==
    \E p \in Threads :
        LET f == inv[p] IN
        /\ AtVerdict(f)
        /\ HourCount(f) = max_queries_per_hour
        /\ DayTokens(f) + f.est <= max_tokens_per_day(f.lim)
        /\ ~f.allowed

\* C2: when the hourly limit does not bind, check_rate_limit allows if the tokens
\* of the trailing 24 hours plus estimated_tokens are at most max_tokens_per_day
\* and refuses with 'Token limit exceeded' if they are one more or above.
C2_TokenBoundary ==
    \A p \in Threads :
        LET f == inv[p] IN
        (AtVerdict(f) /\ HourCount(f) < max_queries_per_hour) =>
            /\ DayTokens(f) + f.est <= max_tokens_per_day(f.lim) => f.allowed
            /\ DayTokens(f) + f.est >= max_tokens_per_day(f.lim) + 1 =>
                   ~f.allowed /\ f.message = "Token limit exceeded"

\* C2 witness: a user with tokens on the ledger is allowed at exactly the budget.
C2_Witness ==
    \E p \in Threads :
        LET f == inv[p] IN
        /\ AtVerdict(f)
        /\ DayTokens(f) > 0
        /\ DayTokens(f) + f.est = max_tokens_per_day(f.lim)
        /\ f.allowed

\* the events of a trace that are calls of an external service
ExternalEvents == {"batch_embed", "query_embed", "completion"}

Positions(tr, ev) == {i \in DOMAIN tr : tr[i].ev = ev}

\* an answer_query invocation of a named user
Named(f) == f.op = "answer_query" /\ f.user # ""

\* C3: in an invocation with a user id no external call is issued before
\* check_rate_limit returned allowed, and record_query is called only right after
\* a completion call of the invocation returned a response.
C3_CheckFirstRecordLast ==
    \A p \in Threads :
        LET f == inv[p]
            tr == f.trace
        IN
        Named(f) =>
            /\ f.pc \in {"ensure", "batch_embed", "embed", "complete"} =>
                   tr # <<>> /\ tr[1] = Event("check", "allowed", 0)
            /\ \A i \in DOMAIN tr : tr[i].ev \in ExternalEvents =>
                   i > 1 /\ tr[1] = Event("check", "allowed", 0)
            /\ f.pc \in {"record", "record_locked"} =>
                   /\ tr # <<>>
                   /\ tr[Len(tr)].ev = "completion"
                   /\ tr[Len(tr)].out \in {"ok", "no_usage"}
            /\ \A i \in DOMAIN tr : tr[i].ev = "record" =>
                   /\ i > 1
                   /\ tr[i - 1].ev = "completion"
                   /\ tr[i - 1].out \in {"ok", "no_usage"}

\* C3 witness: an invocation of a named user that embedded, completed and recorded.
C3_Witness ==
    \E p \in Threads :
        LET f == inv[p] IN
        /\ Named(f)
        /\ f.pc = "done"
        /\ Positions(f.trace, "query_embed") # {}
        /\ Positions(f.trace, "record") # {}

\* an invocation whose rate check was refused
Refused(f) ==
    f.op = "answer_query" /\ f.trace # <<>> /\ f.trace[1] = Event("check", "rejected", 0)

NoLedgerGrowth ==
    \A lim \in Limiters : \A u \in DOMAIN user_queries'[lim] :
        Len(user_queries'[lim][u]) <= Len(Ledger(lim, u))

\* C4: a refused invocation returns '<reason>. Please try again later.', makes no
\* embedding or completion call, leaves the section index as it is and appends
\* nothing to any ledger.
C4_RejectionIsFree ==
    /\ [](\A p \in Threads :
            LET f == inv[p] IN
            Refused(f) =>
                /\ f.pc = "done"
                /\ f.trace = <<Event("check", "rejected", 0)>>
                /\ f.result \in {<<"Rate limit exceeded", ". Please try again later.">>,
                                 <<"Token limit exceeded", ". Please try again later.">>})
    /\ [][\A p \in Threads :
            LET f == inv[p] IN
            (f.op = "answer_query"
                /\ (f.pc \in {"check", "check_locked"} \/ (f.pc = "check_verdict" /\ ~f.allowed)))
            => /\ UNCHANGED <<indexVars, recorded>>
               /\ NoLedgerGrowth
               /\ (f.pc = "check_verdict" /\ inv'[p] # f) => Refused(inv'[p])]_vars

\* C4 witness: a refused invocation has returned.
C4_Witness ==
    \E p \in Threads : Refused(inv[p]) /\ inv[p].pc = "done"

\* C5: whatever its collaborators do, answer_query ends by returning a string; no
\* exception leaves it and its retry loop is bounded.
C5_NeverRaises ==
    \A p \in Threads :
        LET f == inv[p] IN
        f.op = "answer_query" =>
            /\ f.pc # "raised"
            /\ f.attempt < max_retries
            /\ f.pc = "done" => f.result # <<>>

\* C5 witness: an exception of ensure_embeddings was turned into the returned text.
C5_Witness ==
    \E p \in Threads :
        LET f == inv[p] IN
        /\ f.op = "answer_query"
        /\ f.pc = "done"
        /\ f.result = <<"A technical error occurred. Please contact support if this persists.">>

Completions(f) == Positions(f.trace, "completion")

\* C6: a rate-limit failure of attempt 1 is followed by a 1 second sleep, one of
\* attempt 2 by a 2 second sleep, one of attempt 3 by the return of the 'busy'
\* message without a sleep; there are at most 3 completion attempts.
C6_RateLimitBackoff ==
    \A p \in Threads :
        LET f == inv[p]
            tr == f.trace
        IN
        f.op = "answer_query" =>
            /\ Cardinality(Completions(f)) <= 3
            /\ \A i \in Completions(f) : tr[i].out = "rate_limit" =>
                   IF tr[i].n < 3
                   THEN /\ i < Len(tr)
                        /\ tr[i + 1] = Event("sleep", "", IF tr[i].n = 1 THEN 1 ELSE 2)
                   ELSE /\ i = Len(tr)
                        /\ f.pc = "done"
                        /\ f.result \in
                             {<<"The AI service is currently busy. Please try again in a few minutes.">>,
                              <<"OpenAI rate limit reached. Please try again in a few minutes.">>}

\* C6 witness: three rate-limit failures in a row.
C6_Witness ==
    \E p \in Threads :
        LET f == inv[p] IN
        /\ f.op = "answer_query"
        /\ Cardinality(Completions(f)) = 3
        /\ \A i \in Completions(f) : f.trace[i].out = "rate_limit"

\* C7 as claimed: an invocation in which the completion call failed with another
\* API error makes at most 2 completion calls.
C7_AtMostTwoCalls ==
    \A p \in Threads :
        LET f == inv[p] IN
        (f.op = "answer_query" /\ \E i \in Completions(f) : f.trace[i].out = "api_error")
            => Cardinality(Completions(f)) <= 2

\* C7 amended: another API error on attempt 1 or 2 is followed by a further
\* attempt, one on attempt 3 by the return of the error message; the completion
\* service is called at most 3 times.
C7_ApiErrorRetried ==
    \A p \in Threads :
        LET f == inv[p]
            tr == f.trace
        IN
        f.op = "answer_query" =>
            /\ Cardinality(Completions(f)) <= 3
            /\ \A i \in Completions(f) : tr[i].out = "api_error" =>
                   IF tr[i].n < 3
                   THEN \/ f.pc = "complete" /\ f.attempt = tr[i].n
                        \/ \E j \in Completions(f) : j > i /\ tr[j].n = tr[i].n + 1
                   ELSE /\ i = Len(tr)
                        /\ f.pc = "done"
                        /\ f.result \in
                             {<<"I'm having trouble connecting to the AI service. Please try again later.">>,
                              <<"Unable to process your question right now. Please try again later.">>}

\* C7 witness: a third completion call after two other API errors.
C7_Witness ==
    \E p \in Threads :
        LET f == inv[p] IN
        /\ f.op = "answer_query"
        /\ Cardinality(Completions(f)) = 3
        /\ \A i \in Completions(f) : f.trace[i].n < 3 => f.trace[i].out = "api_error"

\* the completion calls of f failed transiently twice and then returned a response
RecoveredOnThird(f) ==
    /\ f.op = "answer_query"
    /\ \E i, j, k \in Completions(f) :
          /\ f.trace[i].n = 1 /\ f.trace[i].out \in {"rate_limit", "api_error"}
          /\ f.trace[j].n = 2 /\ f.trace[j].out \in {"rate_limit", "api_error"}
          /\ f.trace[k].n = 3 /\ f.trace[k].out = "ok"

\* C8: after two transient failures and a success on the third attempt
\* answer_query returns the third response's text, has called the completion
\* service exactly 3 times and, for a named user, has recorded exactly once.
C8_RecoveryOnThird ==
    \A p \in Threads :
        LET f == inv[p] IN
        RecoveredOnThird(f) =>
            /\ Cardinality(Completions(f)) = 3
            /\ IF f.pc = "done"
               THEN /\ f.result = <<"hint", 3>>
                    /\ f.user # "" => Cardinality(Positions(f.trace, "record")) = 1
                    /\ f.user = "" => Positions(f.trace, "record") = {}
               ELSE f.user # "" /\ f.pc \in {"record", "record_locked"}
                               /\ Positions(f.trace, "record") = {}

\* C8 witness: a named user's invocation that recovered on the third attempt from
\* a rate-limit error and another API error.
C8_Witness ==
    \E p \in Threads :
        LET f == inv[p] IN
        /\ RecoveredOnThird(f)
        /\ f.user # ""
        /\ f.pc = "done"
        /\ \E i, j \in Completions(f) :
              f.trace[i].out = "rate_limit" /\ f.trace[j].out = "api_error"

\* every completion call of f failed with an upstream error
AllUpstreamErrors(f) ==
    /\ Completions(f) # {}
    /\ \A i \in Completions(f) : f.trace[i].out \in {"rate_limit", "api_error"}

\* C9: when every completion attempt fails with an upstream error answer_query
\* returns after exactly 3 completion calls with one of its fixed apologies.
C9_RetryExhaustion ==
    \A p \in Threads :
        LET f == inv[p] IN
        f.op = "answer_query" =>
            /\ Cardinality(Completions(f)) <= 3
            /\ (f.pc = "done" /\ AllUpstreamErrors(f)) =>
                   /\ Cardinality(Completions(f)) = 3
                   /\ f.result \in
                        {<<"The AI service is currently busy. Please try again in a few minutes.">>,
                         <<"OpenAI rate limit reached. Please try again in a few minutes.">>,
                         <<"I'm having trouble connecting to the AI service. Please try again later.">>,
                         <<"Unable to process your question right now. Please try again later.">>,
                         <<"Unable to process your question at this time. Please try again later.">>}

\* C9 witness: an invocation that gave up after a mix of upstream errors.
C9_Witness ==
    \E p \in Threads :
        LET f == inv[p] IN
        /\ f.op = "answer_query"
        /\ f.pc = "done"
        /\ AllUpstreamErrors(f)
        /\ f.trace[Len(f.trace)].out = "api_error"
        /\ \E i \in Completions(f) : f.trace[i].out = "rate_limit"

\* the entries of h younger than 24 hours, in order
Young(h) == SelectSeq(h, LAMBDA e : now - e[1] < DaySpan)

----------------------------------------------------------------------------
(* The ledger's contents across one call *)

\* the user's list after the step
LedgerAfter(lim, email) ==
    IF email \in DOMAIN user_queries'[lim] THEN user_queries'[lim][email] ELSE <<>>

\* the entries of h that are younger than 24 hours at time t, in order
YoungAt(h, t) == SelectSeq(h, LAMBDA e : t - e[1] < DaySpan)

\* C11: when check_rate_limit has stored the user's list, the list is what it
\* was before without the entries that are 24 hours old or older: nothing
\* older is left, nothing younger is gone, and the order is kept. The list
\* stays so until the call returns.
C11_PruneOnCheck ==
    /\ [](\A p \in Threads :
            LET f == inv[p] IN
            AtVerdict(f) =>
                /\ f.user \in DOMAIN user_queries[f.lim]
                /\ \A i \in DOMAIN Ledger(f.lim, f.user) :
                       f.ctime - Ledger(f.lim, f.user)[i][1] < DaySpan)
    /\ [][\A p \in Threads :
            LET f == inv[p] IN
            (f.pc = "check_locked" /\ inv'[p].pc = "check_verdict") =>
                /\ LedgerAfter(f.lim, f.user) = YoungAt(Ledger(f.lim, f.user), f.ctime)
                /\ \A u \in Users \ {f.user} :
                       LedgerAfter(f.lim, u) = Ledger(f.lim, u)]_vars

\* C11 witness: a check has pruned an entry that was recorded 24 hours before
\* and kept a younger one.
C11_Witness ==
    \E p \in Threads :
        LET f == inv[p] IN
        /\ AtVerdict(f)
        /\ Len(Ledger(f.lim, f.user)) = 1
        /\ Len(recorded[f.lim][f.user]) = 2
        /\ f.ctime - recorded[f.lim][f.user][1][1] >= DaySpan

\* C12: record_query adds exactly the entry (now, tokens_used) at the end of
\* the user's list, creating the list if absent; it removes and changes no
\* entry, however old, and leaves every other user's list as it is.
C12_RecordAppendsOnly ==
    [][\A p \in Threads :
         LET f == inv[p] IN
         /\ (f.pc = "record" /\ inv'[p].pc = "record_locked") =>
                /\ f.user \in DOMAIN user_queries'[f.lim]
                /\ \A u \in Users : LedgerAfter(f.lim, u) = Ledger(f.lim, u)
         /\ (f.pc = "record_locked" /\ inv'[p].pc = "done") =>
                /\ LedgerAfter(f.lim, f.user) =
                       Append(Ledger(f.lim, f.user), <<now, f.tokens>>)
                /\ \A u \in Users \ {f.user} : LedgerAfter(f.lim, u) = Ledger(f.lim, u)
                /\ \A l \in Limiters \ {f.lim} : user_queries'[l] = user_queries[l]]_vars

\* C12 witness: a record_query call has returned leaving its entry behind one
\* that is older than 24 hours.
C12_Witness ==
    \E p \in Threads :
        LET f == inv[p]
            h == Ledger(f.lim, f.user)
        IN
        /\ f.op = "record_query"
        /\ f.pc = "done"
        /\ Len(h) = 2
        /\ now - h[1][1] > DaySpan
        /\ h[2][1] = now

----------------------------------------------------------------------------
(* What an invocation leaves in the ledger *)

Records(f) == Positions(f.trace, "record")

\* the outcome of the last completion call of f
LastCompletion(f) == f.trace[CHOOSE i \in Completions(f) : \A j \in Completions(f) : j <= i]

\* a named user's invocation that passed its check, called the completion
\* service and has returned
Attempted(f) == Named(f) /\ f.pc = "done" /\ Completions(f) # {}

\* a completion outcome from which the implementation gets a token count
Countable(impl, out) == out = "ok" \/ (out = "no_usage" /\ impl = "backend")

\* C13 as claimed: a named user's invocation that attempted the completion call
\* has recorded an entry, whether the call succeeded or failed.
C13_EveryAttemptRecorded ==
    \A p \in Threads : Attempted(inv[p]) => Records(inv[p]) # {}

\* C13 amended: a named user's invocation that attempted the completion call
\* records exactly one entry, the last of the user's ledger, when its last
\* completion call returned a response whose token count could be taken, and
\* records nothing when its completion calls failed.
C13_RecordedOnSuccessOnly ==
    \A p \in Threads :
        LET f == inv[p]
            h == Ledger(f.lim, f.user)
        IN
        Attempted(f) =>
            IF Countable(f.impl, LastCompletion(f).out)
            THEN /\ Records(f) = {Len(f.trace)}
                 /\ h # <<>>
                 /\ h[Len(h)][2] = f.trace[Len(f.trace)].n
                 /\ recorded[f.lim][f.user] # <<>>
                 /\ h[Len(h)] = recorded[f.lim][f.user][Len(recorded[f.lim][f.user])]
            ELSE /\ Records(f) = {}
                 /\ Len(recorded[f.lim][f.user]) < started

\* C13 witness: a named user's invocation gave up after three failed completion
\* calls and the user's ledger is still empty.
C13_Witness ==
    \E p \in Threads :
        LET f == inv[p] IN
        /\ Attempted(f)
        /\ Cardinality(Completions(f)) = 3
        /\ Records(f) = {}
        /\ Ledger(f.lim, f.user) = <<>>
        /\ recorded[f.lim][f.user] = <<>>

\* a completion call of f returned a response
Responded(f) ==
    \E i \in Completions(f) : f.trace[i].out \in {"ok", "no_usage", "usage_none"}

\* C14 as claimed: when a completion call returned a response for a named user,
\* record_query is called exactly once, with the reported total or with 150 when
\* the response carries no usable count, and the hint is returned.
C14_UsageFallback ==
    \A p \in Threads :
        LET f == inv[p]
            tr == f.trace
        IN
        (Named(f) /\ f.pc = "done" /\ Responded(f)) =>
            /\ Cardinality(Records(f)) = 1
            /\ \A i \in Records(f) :
                   IF LastCompletion(f).out = "ok"
                   THEN tr[i].n \in TokenReports
                   ELSE tr[i].n = FallbackTokens
            /\ \E i \in Completions(f) :
                   /\ tr[i].out \in {"ok", "no_usage", "usage_none"}
                   /\ f.result = <<"hint", tr[i].n>>

\* the batch embedding calls of f that failed
FailedBatch(f) == {i \in Positions(f.trace, "batch_embed") : f.trace[i].out # "ok"}

\* C15 as claimed: after a failed batch embedding call the same invocation goes
\* on to embed the query and, that succeeding, to the completion call with an
\* empty context.
C15_DegradesToContextFree ==
    \A p \in Threads :
        LET f == inv[p]
            tr == f.trace
        IN
        (f.op = "answer_query" /\ FailedBatch(f) # {}) =>
            /\ f.pc = "done" => Positions(tr, "query_embed") # {}
            /\ f.pc = "complete" => f.best_chunk = ""
            /\ f.result # <<"A technical error occurred. Please contact support if this persists.">>

\* C16 as claimed: the embedding service is asked for a section's chunk batch
\* at most once, whatever the outcome.
C16_AtMostOneBatchCall ==
    \A s \in Documents : batch_calls[s] <= 1

\* C17 as claimed: once ensure_embeddings has found a section to have no chunks,
\* it never looks again.
C17_EmptyCached ==
    \A svc \in Services : empty_finds[svc] <= 1

\* C18 as claimed: between calls, every section's stored chunk list and stored
\* embedding list have the same length.
C18_IndexAligned ==
    (\A p \in Threads : Resting(p)) =>
        /\ \A s \in DOMAIN pdf_chunks_by_section :
               pdf_chunks_by_section[s] =
                   (IF s \in DOMAIN pdf_embeddings_by_section
                    THEN pdf_embeddings_by_section[s] ELSE 0)
        /\ \A m \in DOMAIN pdf_chunks : pdf_chunks[m] = pdf_embeddings[m]

----------------------------------------------------------------------------
(* Retrieval properties *)

\* a retrieval over a non-empty index has selected
Retrieved == retrieval.pc = "retrieved" /\ retrieval.emb_list # <<>>

\* C19: over a non-empty index the retrieved context is the chunk at the lowest
\* position whose similarity to the query is the greatest of the index.
C19_FirstMaximum ==
    Retrieved =>
        LET sims == Sims(retrieval)
            greatest == {i \in DOMAIN sims : \A j \in DOMAIN sims : ~FloatLess(sims[i], sims[j])}
        IN  /\ greatest # {}
            /\ retrieval.best_idx \in greatest
            /\ \A i \in greatest : retrieval.best_idx <= i
            /\ retrieval.best_chunk = retrieval.chunk_list[retrieval.best_idx]

\* C19 witness: two positions tie for the greatest similarity and the first of
\* them, which is not the first of the index, is selected.
C19_Witness ==
    /\ Retrieved
    /\ Len(retrieval.emb_list) = 3
    /\ retrieval.best_idx = 2
    /\ FloatEqual(Sims(retrieval)[2], Sims(retrieval)[3])
    /\ retrieval.emb_list[2] # retrieval.emb_list[3]

\* b points in the direction of a
SameDirection(a, b) == a[1] * b[2] = a[2] * b[1] /\ Dot(a, b) > 0

----------------------------------------------------------------------------
(* Degraded mode *)

\* an invocation of backend.answer_query for a section without a document
Undocumented(f) == f.op = "answer_query" /\ f.impl = "backend" /\ ~HasPdf(f.section)

\* C21: for a section with no configured document or an unrecognized section id
\* answer_query makes no batch embedding call; once ensure_embeddings has run
\* the section is stored with an empty chunk list and an empty embedding list;
\* the invocation never ends in the outer exception handler; once the query is
\* embedded the context is the empty string and the completion service is
\* called; when the last completion call succeeds its text is returned.
C21_DegradedMode ==
    \A p \in Threads :
        LET f == inv[p]
            tr == f.trace
            s == f.section
        IN
        Undocumented(f) =>
            /\ Positions(tr, "batch_embed") = {}
            /\ Positions(tr, "ensure") # {} =>
                   /\ \A i \in Positions(tr, "ensure") : tr[i].out \in {"no_path", "cached"}
                   /\ s \in DOMAIN pdf_chunks_by_section
                   /\ s \in DOMAIN pdf_embeddings_by_section
                   /\ pdf_chunks_by_section[s] = 0
                   /\ pdf_embeddings_by_section[s] = 0
            /\ f.result # <<"A technical error occurred. Please contact support if this persists.">>
            /\ (\E i \in Positions(tr, "query_embed") : tr[i].out = "ok") =>
                   /\ f.pc # "done" => f.best_chunk = ""
                   /\ f.pc = "complete" \/ Completions(f) # {}
            /\ (f.pc = "done" /\ Completions(f) # {} /\ LastCompletion(f).out = "ok") =>
                   f.result = <<"hint", LastCompletion(f).n>>

\* C21 witness: an invocation for an unrecognized section id has returned the
\* text of its first completion call, having stored empty lists for the section
\* and called neither the batch embedding nor a second completion.
C21_Witness ==
    \E p \in Threads :
        LET f == inv[p] IN
        /\ Undocumented(f)
        /\ f.section = "Other"
        /\ f.pc = "done"
        /\ f.result = <<"hint", 1>>
        /\ Positions(f.trace, "batch_embed") = {}
        /\ pdf_chunks_by_section["Other"] = 0
        /\ pdf_embeddings_by_section["Other"] = 0

----------------------------------------------------------------------------
(* Chunking properties *)

\* C22 as claimed: the final filter removes exactly the candidate chunks shorter
\* than 50 characters: every candidate of 50 characters or more is returned and
\* no returned chunk is shorter than 50.
C22_FilterBelowFifty ==
    chunker.pc = "returned" =>
        /\ \A i \in DOMAIN chunker.chunks :
               chunker.chunks[i].len >= MinChunkLength =>
                   \E j \in DOMAIN chunker.result : chunker.result[j] = chunker.chunks[i]
        /\ \A j \in DOMAIN chunker.result : chunker.result[j].len >= MinChunkLength

\* the returned chunks that hold a piece of paragraph i
ChunksOf(i) ==
    {j \in DOMAIN chunker.result :
        \E k \in DOMAIN chunker.result[j].parts : chunker.result[j].parts[k][1] = i}

\* C30: with the default threshold a paragraph of 300 characters or more is
\* returned whole, a shorter paragraph is never split into two or more chunks
\* and never merged with a neighbouring paragraph, and there are at most as
\* many chunks as paragraphs.
C30_OneChunkPerParagraph ==
    chunker.pc = "returned" =>
        LET text == chunker.text
            res == chunker.result
        IN
        /\ \A i \in DOMAIN text :
               IF ParaLen(text[i]) >= min_length
               THEN /\ Cardinality(ChunksOf(i)) = 1
                    /\ \A j \in ChunksOf(i) :
                           /\ res[j].parts = [k \in 1..Len(text[i].sents) |-> <<i, k>>]
                           /\ res[j].len = ParaLen(text[i])
               ELSE /\ Cardinality(ChunksOf(i)) <= 1
                    /\ \A j \in ChunksOf(i) :
                           res[j].parts = [k \in 1..Len(text[i].sents) |-> <<i, k>>]
        /\ \A j \in DOMAIN res :
               \A k, l \in DOMAIN res[j].parts : res[j].parts[k][1] = res[j].parts[l][1]
        /\ Len(res) <= Len(text)

\* C30 witness: of two paragraphs of the same two sentences, the first of 300
\* characters came back whole and the second, of 299, as one chunk of both
\* sentences.
C30_Witness ==
    /\ chunker.pc = "returned"
    /\ Len(chunker.text) = 2
    /\ chunker.text[1] = [sents |-> <<149, 149>>, gaps |-> <<2>>]
    /\ chunker.text[2] = [sents |-> <<149, 149>>, gaps |-> <<1>>]
    /\ Len(chunker.result) = 2
    /\ chunker.result[1].len = min_length
    /\ chunker.result[2] = [parts |-> <<<<2, 1>>, <<2, 2>>>>, len |-> 299]

----------------------------------------------------------------------------
(* Concurrent invocations *)

\* the entries of h stamped within the hour that ends at time t
TrailingHour(h, t) == {i \in DOMAIN h : h[i][1] <= t /\ t - h[i][1] < HourSpan}

\* C23 as claimed: however concurrent answer_query invocations of one user
\* interleave, the user's ledger never holds more than max_queries_per_hour
\* entries stamped within one trailing hour.
C23_QuotaNotOvershot ==
    \A lim \in Limiters, u \in Users, t \in 0..now :
        Cardinality(TrailingHour(Ledger(lim, u), t)) <= max_queries_per_hour

\* C24 as claimed: when invocations race on a section that is not indexed yet,
\* the batch embedding call is made at most once for the section and no two
\* invocations are populating the index at the same time.
C24_PopulatedOnce ==
    /\ \A s \in Documents : batch_calls[s] <= 1
    /\ Cardinality({p \in Threads : inv[p].pc = "batch_embed"}) <= 1

----------------------------------------------------------------------------
(* The daily budget *)

\* C25 as claimed: after any sequence of answer_query invocations of one user
\* the tokens of the user's ledger entries of the trailing 24 hours sum to at
\* most max_tokens_per_day.
C25_DailyBudgetKept ==
    (\A p \in Threads : Resting(p)) =>
        \A lim \in Limiters, u \in Users :
            LET h == Ledger(lim, u) IN
            TokensAt(h, Within(h, now, DaySpan)) <= max_tokens_per_day(lim)

----------------------------------------------------------------------------
(* Readmission *)

\* a check_rate_limit call of user u has returned this verdict
Verdict(u, allowed) ==
    \E p \in Threads :
        /\ inv[p].op = "check_rate_limit"
        /\ inv[p].pc = "done"
        /\ inv[p].user = u
        /\ inv[p].result[1] = allowed

\* the time of the last entry recorded for the user, if any
LastRecorded(lim, u) == recorded[lim][u][Len(recorded[lim][u])][1]

\* C26: check_rate_limit never appends an entry; a check made an hour or more
\* after the user's last recorded call is not refused for the query limit and
\* one made 24 hours or more after it is allowed; and a user who was rejected
\* and keeps asking while time advances, no call being recorded any more, is
\* eventually allowed.
C26_Readmission ==
    /\ [][\A lim \in Limiters, u \in Users :
            (\E p \in Threads : inv[p].op = "check_rate_limit") =>
                /\ Len(LedgerAfter(lim, u)) <= Len(Ledger(lim, u))
                /\ recorded' = recorded]_vars
    /\ [](\A p \in Threads :
            LET f == inv[p] IN
            (AtVerdict(f) /\ recorded[f.lim][f.user] # <<>>) =>
                /\ f.ctime - LastRecorded(f.lim, f.user) >= HourSpan =>
                       f.message # "Rate limit exceeded"
                /\ f.ctime - LastRecorded(f.lim, f.user) >= DaySpan => f.allowed)
    /\ \A u \in Users : Verdict(u, FALSE) ~> Verdict(u, TRUE)

\* C26 witness: with the hourly quota of calls recorded, the user is allowed by
\* a check made less than a day after them, the ledger still holding entries.
C26_Witness ==
    /\ Verdict("a@whu.edu", TRUE)
    /\ now > MaxRecordClock
    /\ now < DaySpan
    /\ Len(recorded["backend"]["a@whu.edu"]) = MaxReadmitRecords
    /\ Ledger("backend", "a@whu.edu") # <<>>

----------------------------------------------------------------------------
(* User isolation *)

\* what was recorded for the user and is younger than span at time t
OwnRecent(lim, u, t, span) == Within(recorded[lim][u], t, span)

\* C27: the verdict of check_rate_limit for a user is determined by the calls
\* recorded for that user, the time of the check, the estimate and the
\* configuration, whatever the other users' ledgers hold; and a user's ledger
\* changes only while a check_rate_limit or record_query call for that user is
\* under way.
C27_UserIsolation ==
    /\ [](\A p \in Threads :
            LET f == inv[p]
                own == recorded[f.lim][f.user]
            IN
            AtVerdict(f) =>
                /\ f.allowed <=>
                       /\ Cardinality(OwnRecent(f.lim, f.user, f.ctime, HourSpan))
                              < max_queries_per_hour
                       /\ TokensAt(own, OwnRecent(f.lim, f.user, f.ctime, DaySpan)) + f.est
                              <= max_tokens_per_day(f.lim)
                /\ f.message = "Rate limit exceeded" <=>
                       Cardinality(OwnRecent(f.lim, f.user, f.ctime, HourSpan))
                           >= max_queries_per_hour)
    /\ [][\A lim \in Limiters, u \in Users :
            (\/ LedgerAfter(lim, u) # Ledger(lim, u)
             \/ (u \in DOMAIN user_queries'[lim]) # (u \in DOMAIN user_queries[lim])
             \/ recorded'[lim][u] # recorded[lim][u])
            => \E p \in Threads :
                   /\ ~Resting(p)
                   /\ inv[p].lim = lim
                   /\ inv[p].user = u]_vars

\* C27 witness: a user is allowed while another user's ledger holds the whole
\* hourly quota of entries of the same hour.
C27_Witness ==
    \E p \in Threads :
        LET f == inv[p] IN
        /\ AtVerdict(f)
        /\ f.user = "a@whu.edu"
        /\ f.allowed
        /\ Cardinality(Within(Ledger(f.lim, "b@whu.edu"), f.ctime, HourSpan))
               >= max_queries_per_hour

----------------------------------------------------------------------------
(* Anonymous requests *)

\* an answer_query invocation without a user id
Anonymous(f) == f.op = "answer_query" /\ f.user = ""

\* C28: an invocation with an empty user id calls neither check_rate_limit nor
\* record_query, leaves the ledger map as it was, and goes on to the external
\* calls however many requests were made before.
C28_AnonymousBypass ==
    /\ [](\A p \in Threads :
            LET f == inv[p]
                tr == f.trace
            IN
            Anonymous(f) =>
                /\ Positions(tr, "check") = {}
                /\ Positions(tr, "record") = {}
                /\ f.pc \in {"ensure", "batch_embed", "embed", "complete", "done"}
                /\ \A lim \in Limiters : "" \notin DOMAIN user_queries[lim]
                /\ f.pc = "done" =>
                       /\ tr # <<>>
                       /\ tr[1].ev \in {"ensure", "completion"}
                       /\ f.result[1] \notin {"Rate limit exceeded", "Token limit exceeded"})
    /\ [][((\E p \in Threads : ~Resting(p)) /\
           (\A p \in Threads : Resting(p) \/ Anonymous(inv[p])))
              => UNCHANGED ledgerVars]_vars

\* C28 witness: the last of the invocations explored, an anonymous one made
\* after a named one that was recorded, has returned its hint.
C28_Witness ==
    \E p \in Threads :
        LET f == inv[p] IN
        /\ Anonymous(f)
        /\ f.pc = "done"
        /\ started = MaxInvocations
        /\ f.result = <<"hint", 1>>
        /\ Ledger(f.lim, "a@whu.edu") # <<>>

----------------------------------------------------------------------------
(* Students and ledgers *)

\* C29 as claimed: email strings that validate_email accepts and cleans to the
\* same address are counted against the same ledger: no limiter keeps two
\* lists for one cleaned address.
C29_OneStudentOneLedger ==
    \A lim \in Limiters :
        \A k1, k2 \in DOMAIN user_queries[lim] :
            (/\ validate_email(k1)[1]
             /\ validate_email(k2)[1]
             /\ validate_email(k1)[2] = validate_email(k2)[2])
            => k1 = k2

============================================================================
